---- MODULE Spec2Model ----
(***************************************************************************)
(* A model of timereport.py: the line parser (line_re, minutes_from_line), *)
(* the time conversions (to_minutes, format_duration) and the aggregation  *)
(* (stats_from_file, timereport).                                          *)
(*                                                                         *)
(* A Python str is modelled as a sequence of one-character strings, so     *)
(* that matching, splitting, parsing and formatting are computed on the    *)
(* characters as the code computes them.                                   *)
(***************************************************************************)
EXTENDS Integers, Sequences, FiniteSets, TLC

VARIABLES
    pc,              \* position of the modelled call
    f,               \* timereport / stats_from_file: the input, a sequence of lines
    idx,             \* stats_from_file: number of lines the for loop has consumed
    total_days,      \* stats_from_file: total_days
    total_duration,  \* stats_from_file: total_duration
    out,             \* standard output: the sequence of printed lines
    ret,             \* what timereport returned or raised
    shape,           \* ghost: the structure the text in `line` was written from
    line,            \* minutes_from_line: its argument
    minutes,         \* minutes_from_line: its result
    s,               \* to_minutes: its argument
    duration,        \* format_duration: its argument
    text             \* format_duration: its result

vars == <<pc, f, idx, total_days, total_duration, out, ret,
          shape, line, minutes, s, duration, text>>

(***************************************************************************)
(* Bounds of the model.                                                    *)
(***************************************************************************)
MaxLines == 3
MaxIntervals == 2
MaxDuration == 200

(***************************************************************************)
(* Characters, int() and str().                                            *)
(***************************************************************************)
DigitChars == <<"0", "1", "2", "3", "4", "5", "6", "7", "8", "9">>

Digits == {"0", "1", "2", "3", "4", "5", "6", "7", "8", "9"}

IsDigit(c) == c \in Digits

DigitValue(c) == CHOOSE d \in 0..9 : DigitChars[d + 1] = c

AllDigits(str) == \A i \in 1..Len(str) : IsDigit(str[i])

RECURSIVE DecimalValue(_)
DecimalValue(str) ==
    IF str = <<>> THEN 0
    ELSE DecimalValue(SubSeq(str, 1, Len(str) - 1)) * 10 + DigitValue(str[Len(str)])

\* Results of the modelled functions: an int, None, or a raised ValueError.
IntResult(n) == [kind |-> "int", val |-> n]
None == [kind |-> "None", val |-> 0]
ValueError == [kind |-> "ValueError", val |-> 0]

\* Python's int(str) on a sign followed by decimal digits; anything else
\* raises ValueError.
int(str) ==
    IF str # <<>> /\ AllDigits(str) THEN IntResult(DecimalValue(str))
    ELSE IF Len(str) > 1 /\ str[1] = "-" /\ AllDigits(Tail(str))
         THEN IntResult(0 - DecimalValue(Tail(str)))
    ELSE IF Len(str) > 1 /\ str[1] = "+" /\ AllDigits(Tail(str))
         THEN IntResult(DecimalValue(Tail(str)))
    ELSE ValueError

RECURSIVE NatStr(_)
NatStr(n) ==
    IF n < 10 THEN <<DigitChars[n + 1]>>
    ELSE NatStr(n \div 10) \o <<DigitChars[(n % 10) + 1]>>

\* Python's str(n), the rendering of {n} in an f-string.
IntStr(n) == IF n < 0 THEN <<"-">> \o NatStr(0 - n) ELSE NatStr(n)

\* The rendering of {n:02}: sign-aware zero padding to width 2.
IntStr02(n) ==
    IF n < 0 THEN <<"-">> \o NatStr(0 - n)
    ELSE IF n < 10 THEN <<"0">> \o NatStr(n)
    ELSE NatStr(n)

\* str.find(c, i), 1-based: the first position >= i that holds c, or 0.
RECURSIVE find(_, _, _)
find(str, c, i) ==
    IF i > Len(str) THEN 0
    ELSE IF str[i] = c THEN i
    ELSE find(str, c, i + 1)

\* str.split(sep) for a one-character separator.
RECURSIVE split(_, _)
split(str, sep) ==
    LET k == find(str, sep, 1) IN
    IF k = 0 THEN <<str>>
    ELSE <<SubSeq(str, 1, k - 1)>> \o split(SubSeq(str, k + 1, Len(str)), sep)

\* str.rstrip('\n')
RECURSIVE rstrip(_)
rstrip(str) ==
    IF str # <<>> /\ str[Len(str)] = "\n" THEN rstrip(SubSeq(str, 1, Len(str) - 1))
    ELSE str

(***************************************************************************)
(* to_minutes                                                              *)
(***************************************************************************)
to_minutes(str) ==
    LET parts == split(str, ":") IN
    IF Len(parts) # 2 THEN ValueError
    ELSE LET h == int(parts[1])
             m == int(parts[2])
         IN  IF h.kind = "int" /\ m.kind = "int"
             THEN IntResult(h.val * 60 + m.val)
             ELSE ValueError

(***************************************************************************)
(* line_re.  Positions are 1-based; a matcher returns the position after   *)
(* what it matched, or 0 when it does not match.  Everything after the     *)
(* first interval is optional, so the greedy path is the match the         *)
(* backtracking engine returns: a \d{1,2} that is followed by a literal    *)
(* cannot give a digit back (the literal would face a digit), and the      *)
(* engine never re-enters a finished group once the rest matches empty.    *)
(***************************************************************************)
MatchChar(str, i, c) ==
    IF i # 0 /\ i <= Len(str) /\ str[i] = c THEN i + 1 ELSE 0

\* \d{n}
MatchDigitsN(str, i, n) ==
    IF i # 0 /\ i + n - 1 <= Len(str) /\ \A j \in i..(i + n - 1) : IsDigit(str[j])
    THEN i + n ELSE 0

\* \d{1,2}
MatchDigits12(str, i) ==
    IF i # 0 /\ i <= Len(str) /\ IsDigit(str[i])
    THEN (IF i + 1 <= Len(str) /\ IsDigit(str[i + 1]) THEN i + 2 ELSE i + 1)
    ELSE 0

\* \d{4}-\d{2}-\d{2}
MatchDate(str, i) ==
    MatchDigitsN(str, MatchChar(str, MatchDigitsN(str,
        MatchChar(str, MatchDigitsN(str, i, 4), "-"), 2), "-"), 2)

\* \d{1,2}:\d{1,2}
MatchTime(str, i) == MatchDigits12(str, MatchChar(str, MatchDigits12(str, i), ":"))

\* \d{1,2}:\d{1,2}-\d{1,2}:\d{1,2}
MatchInterval(str, i) == MatchTime(str, MatchChar(str, MatchTime(str, i), "-"))

\* " *" from position i (i # 0)
RECURSIVE SkipSpaces(_, _)
SkipSpaces(str, i) ==
    IF i <= Len(str) /\ str[i] = " " THEN SkipSpaces(str, i + 1) ELSE i

\* \d* from position i (i # 0)
RECURSIVE SkipDigits(_, _)
SkipDigits(str, i) ==
    IF i <= Len(str) /\ IsDigit(str[i]) THEN SkipDigits(str, i + 1) ELSE i

\* (?:, *)?
MatchSep(str, i) ==
    IF i <= Len(str) /\ str[i] = "," THEN SkipSpaces(str, i + 1) ELSE i

\* (?:\d{1,2}:\d{1,2}-\d{1,2}:\d{1,2}(?:, *)?)+
RECURSIVE MatchIntervals(_, _)
MatchIntervals(str, i) ==
    LET e == MatchInterval(str, i) IN
    IF e = 0 THEN 0
    ELSE LET a == MatchSep(str, e)
             more == MatchIntervals(str, a)
         IN  IF more = 0 THEN a ELSE more

\* (?: \((\d+) min.*\))? : the captured group 3, or no group (None)
NoGroup == [some |-> FALSE, str |-> <<>>]

MatchPause(str, i) ==
    LET a == MatchChar(str, MatchChar(str, i, " "), "(")
        d == IF a = 0 THEN 0 ELSE SkipDigits(str, a)
        e == MatchChar(str, MatchChar(str, MatchChar(str,
                 MatchChar(str, IF d > a THEN d ELSE 0, " "), "m"), "i"), "n")
    IN  IF e # 0 /\ find(str, ")", e) # 0
        THEN [some |-> TRUE, str |-> SubSeq(str, a, d - 1)]
        ELSE NoGroup

\* line_re.search(line): the pattern is anchored at the start of the line.
line_re_search(str) ==
    LET d == MatchDate(str, 1)
        b == MatchChar(str, d, " ")
        e == IF b = 0 THEN 0 ELSE MatchIntervals(str, b)
    IN  IF e = 0
        THEN [matched |-> FALSE, date |-> <<>>, intervals |-> <<>>, p |-> NoGroup]
        ELSE [matched |-> TRUE,
              date |-> SubSeq(str, 1, d - 1),
              intervals |-> SubSeq(str, b, e - 1),
              p |-> MatchPause(str, e)]

\* re.split(r', *', intervals)
RECURSIVE re_split(_)
re_split(str) ==
    LET k == find(str, ",", 1) IN
    IF k = 0 THEN <<str>>
    ELSE <<SubSeq(str, 1, k - 1)>>
         \o re_split(SubSeq(str, SkipSpaces(str, k + 1), Len(str)))

(***************************************************************************)
(* minutes_from_line                                                       *)
(***************************************************************************)
\* One pass of the loop body: start, stop = interval.split('-') and
\* to_minutes(stop) - to_minutes(start).  The unpacking raises ValueError
\* unless the split yields exactly two parts.
interval_minutes(interval) ==
    LET parts == split(interval, "-") IN
    IF Len(parts) # 2 THEN ValueError
    ELSE LET stop == to_minutes(parts[2])
             start == to_minutes(parts[1])
         IN  IF stop.kind = "int" /\ start.kind = "int"
             THEN IntResult(stop.val - start.val)
             ELSE ValueError

RECURSIVE SumVals(_)
SumVals(rs) == IF rs = <<>> THEN 0 ELSE rs[1].val + SumVals(Tail(rs))

\* pause = int(p) if p else 0
pause_of(p) == IF p.some /\ p.str # <<>> THEN int(p.str).val ELSE 0

minutes_from_line(l) ==
    LET m == line_re_search(l) IN
    IF m.matched
    THEN LET pieces == re_split(m.intervals)
             durs == [k \in 1..Len(pieces) |-> interval_minutes(pieces[k])]
         IN  IF \E k \in 1..Len(pieces) : durs[k].kind = "ValueError"
             THEN ValueError
             ELSE IntResult(SumVals(durs) - pause_of(m.p))
    ELSE None

(***************************************************************************)
(* The input lines.  A line is written from a shape: a date, a list of     *)
(* intervals with the separators between them, what follows the last       *)
(* interval, a parenthesized annotation and a free-text description.       *)
(***************************************************************************)
DateShapes == {<<"2", "0", "1", "9", "-", "0", "4", "-", "0", "9">>, <<"2", "0", "1", "9", "/", "0", "4", "/", "0", "9">>}

IntervalShapes ==
    {[h1 |-> <<"8">>, m1 |-> <<"0", "0">>, h2 |-> <<"1", "7">>, m2 |-> <<"0", "0">>],
     [h1 |-> <<"9">>, m1 |-> <<"5">>, h2 |-> <<"9">>, m2 |-> <<"1", "5">>],
     [h1 |-> <<"1", "7">>, m1 |-> <<"0", "0">>, h2 |-> <<"8">>, m2 |-> <<"0", "0">>],
     [h1 |-> <<"8">>, m1 |-> <<"0", "0">>, h2 |-> <<"8">>, m2 |-> <<"0", "0">>],
     [h1 |-> <<"0", "7">>, m1 |-> <<"1", "0">>, h2 |-> <<"8">>, m2 |-> <<"1", "0">>]}

\* Between two intervals: a comma, a comma and a space, or nothing.
SepShapes == {<<",">>, <<",", " ">>, <<>>}

\* After the last interval: nothing, or a comma.
TailShapes == {<<>>, <<",">>}

\* The annotation: the N of each "<N> min" clause, and whether it is closed.
AnnotShapes ==
    {[clauses |-> <<>>, closed |-> TRUE],
     [clauses |-> <<<<"5", "0">>>>, closed |-> TRUE],
     [clauses |-> <<<<"5", "0">>, <<"1", "0">>>>, closed |-> TRUE],
     [clauses |-> <<<<"6", "0", "0">>>>, closed |-> TRUE],
     [clauses |-> <<<<"5", "0">>>>, closed |-> FALSE]}

TrailShapes == {<<>>, <<" ", "j", "o", "b", "b", "a", "d", "e">>}

ShapesOfLength(n) ==
    {[date |-> d, ivs |-> ivs, seps |-> seps, tail |-> tl, annot |-> a, trail |-> tr] :
        d \in DateShapes, ivs \in [1..n -> IntervalShapes],
        seps \in [1..(n - 1) -> SepShapes], tl \in TailShapes,
        a \in AnnotShapes, tr \in TrailShapes}

NoShape ==
    [date |-> <<>>, ivs |-> <<>>, seps |-> <<>>, tail |-> <<>>,
     annot |-> [clauses |-> <<>>, closed |-> TRUE], trail |-> <<>>]

RenderInterval(iv) ==
    iv.h1 \o <<":">> \o iv.m1 \o <<"-">> \o iv.h2 \o <<":">> \o iv.m2

RECURSIVE RenderIntervals(_, _)
RenderIntervals(ivs, seps) ==
    IF Len(ivs) = 1 THEN RenderInterval(ivs[1])
    ELSE RenderInterval(ivs[1]) \o seps[1] \o RenderIntervals(Tail(ivs), Tail(seps))

RECURSIVE RenderClauses(_)
RenderClauses(cs) ==
    IF cs = <<>> THEN <<>>
    ELSE <<" ", "+", " ">> \o cs[1] \o <<" ", "m", "i", "n", " ", "c", "a", "l", "l">> \o RenderClauses(Tail(cs))

RenderAnnot(a) ==
    IF a.clauses = <<>> THEN <<>>
    ELSE <<" ", "(">> \o a.clauses[1] \o <<" ", "m", "i", "n", " ", "l", "u", "n", "c", "h">> \o RenderClauses(Tail(a.clauses))
         \o (IF a.closed THEN <<")">> ELSE <<>>)

Render(sh) ==
    sh.date \o <<" ">> \o RenderIntervals(sh.ivs, sh.seps) \o sh.tail
    \o RenderAnnot(sh.annot) \o sh.trail

(***************************************************************************)
(* SpecLine: minutes_from_line applied to one line.                        *)
(***************************************************************************)
NotCalled == [kind |-> "pending", val |-> 0]

\* timereport has neither returned nor raised.
NoReturn == [kind |-> "pending", val |-> <<>>]

InitLine ==
    /\ pc = "call minutes_from_line"
    /\ \E n \in 1..MaxIntervals : shape \in ShapesOfLength(n)
    /\ line = Render(shape)
    /\ minutes = NotCalled
    /\ f = <<>> /\ idx = 0 /\ total_days = 0 /\ total_duration = 0
    /\ out = <<>> /\ ret = NoReturn
    /\ s = <<>> /\ duration = 0 /\ text = <<>>

MinutesFromLine ==
    /\ pc = "call minutes_from_line"
    /\ minutes' = minutes_from_line(line)
    /\ pc' = "minutes_from_line returned"
    /\ UNCHANGED <<f, idx, total_days, total_duration, out, ret,
                   shape, line, s, duration, text>>

NextLine == MinutesFromLine

SpecLine == InitLine /\ [][NextLine]_vars

(***************************************************************************)
(* format_duration                                                         *)
(***************************************************************************)
\* A faulty variant of format_duration: the minutes are not padded to two digits.
format_duration_nopad(d) ==
    LET h == d \div 60
        m == d % 60
    IN  IntStr(h) \o <<":">> \o IntStr(m)

\* A faulty variant of format_duration: division and remainder truncate toward zero.
format_duration_trunc(d) ==
    LET h == IF d < 0 THEN 0 - ((0 - d) \div 60) ELSE d \div 60
        m == d - h * 60
    IN  IntStr(h) \o <<":">> \o IntStr02(m)

\* Python's // and % floor, as \div and % do.
format_duration(d) ==
    LET h == d \div 60
        m == d % 60
    IN  IntStr(h) \o <<":">> \o IntStr02(m)

(***************************************************************************)
(* SpecFmt: to_minutes and format_duration applied to one argument; the    *)
(* result of to_minutes is passed on to format_duration.                   *)
(***************************************************************************)
\* The hours 0..23 as written without padding, and 00..09 with it.
HourTokens ==
    {<<d>> : d \in Digits} \cup {<<"1", d>> : d \in Digits}
    \cup {<<"2", d>> : d \in {"0", "1", "2", "3"}}

PaddedHourTokens == {<<"0", d>> : d \in Digits}

\* The minutes 00..59, two digits.
MinuteTokens == {<<a, b>> : a \in {"0", "1", "2", "3", "4", "5"}, b \in Digits}

CanonicalTokens == {h \o <<":">> \o m : h \in HourTokens, m \in MinuteTokens}

TimeTokens ==
    CanonicalTokens \cup {h \o <<":">> \o m : h \in PaddedHourTokens, m \in MinuteTokens}

InitFmt ==
    /\ \/ pc = "call to_minutes" /\ s \in TimeTokens /\ duration = 0
       \/ pc = "call format_duration" /\ s = <<>>
          /\ duration \in (0 - MaxDuration)..MaxDuration
    /\ text = <<>>
    /\ f = <<>> /\ idx = 0 /\ total_days = 0 /\ total_duration = 0
    /\ out = <<>> /\ ret = NoReturn
    /\ shape = NoShape /\ line = <<>> /\ minutes = NotCalled

ToMinutes ==
    /\ pc = "call to_minutes"
    /\ LET r == to_minutes(s) IN
       IF r.kind = "int"
       THEN duration' = r.val /\ pc' = "call format_duration"
       ELSE duration' = duration /\ pc' = "to_minutes raised"
    /\ UNCHANGED <<f, idx, total_days, total_duration, out, ret,
                   shape, line, minutes, s, text>>

FormatDuration ==
    /\ pc = "call format_duration"
    /\ text' = format_duration(duration)
    /\ pc' = "format_duration returned"
    /\ UNCHANGED <<f, idx, total_days, total_duration, out, ret,
                   shape, line, minutes, s, duration>>

NextFmt == ToMinutes \/ FormatDuration

SpecFmt == InitFmt /\ [][NextFmt]_vars

(***************************************************************************)
(* Spec: timereport(f).  The for loop of stats_from_file takes one line    *)
(* per step; then timereport divides and builds the report.                *)
(***************************************************************************)
Shape1(iv, tl, a, tr) ==
    [date |-> <<"2", "0", "1", "9", "-", "0", "4", "-", "0", "9">>, ivs |-> <<iv>>, seps |-> <<>>, tail |-> tl, annot |-> a, trail |-> tr]

NoAnnot == [clauses |-> <<>>, closed |-> TRUE]

FileLineShapes ==
    {Shape1([h1 |-> <<"8">>, m1 |-> <<"0", "0">>, h2 |-> <<"1", "7">>, m2 |-> <<"0", "0">>], <<>>,
            [clauses |-> <<<<"5", "0">>>>, closed |-> TRUE], <<" ", "j", "o", "b", "b", "a", "d", "e">>),
     Shape1([h1 |-> <<"9">>, m1 |-> <<"5">>, h2 |-> <<"9">>, m2 |-> <<"2", "0">>], <<>>, NoAnnot, <<>>),
     Shape1([h1 |-> <<"1", "7">>, m1 |-> <<"0", "0">>, h2 |-> <<"8">>, m2 |-> <<"0", "0">>], <<>>, NoAnnot, <<>>),
     Shape1([h1 |-> <<"8">>, m1 |-> <<"0", "0">>, h2 |-> <<"8">>, m2 |-> <<"0", "0">>], <<>>, NoAnnot, <<>>),
     Shape1([h1 |-> <<"8">>, m1 |-> <<"0", "0">>, h2 |-> <<"1", "7">>, m2 |-> <<"0", "0">>], <<",">>, NoAnnot, <<>>),
     [date |-> <<"2", "0", "1", "9", "/", "0", "4", "/", "0", "9">>, ivs |-> <<[h1 |-> <<"8">>, m1 |-> <<"0", "0">>, h2 |-> <<"1", "7">>, m2 |-> <<"0", "0">>]>>,
      seps |-> <<>>, tail |-> <<>>, annot |-> NoAnnot, trail |-> <<>>]}

\* A last line that does not end in a newline.
UnterminatedLine ==
    Render(Shape1([h1 |-> <<"8">>, m1 |-> <<"0", "0">>, h2 |-> <<"1", "7">>, m2 |-> <<"0", "0">>], <<>>, NoAnnot, <<>>))

FileLines ==
    {Render(sh) \o <<"\n">> : sh \in FileLineShapes} \cup {<<"\n">>, UnterminatedLine}

\* The inputs of n lines.
Files(n) == [1..n -> FileLines]

Init ==
    /\ pc = "stats_from_file"
    /\ \E n \in 0..MaxLines : f \in Files(n)
    /\ idx = 0 /\ total_days = 0 /\ total_duration = 0
    /\ out = <<>> /\ ret = NoReturn
    /\ shape = NoShape /\ line = <<>> /\ minutes = NotCalled
    /\ s = <<>> /\ duration = 0 /\ text = <<>>

\* The line the for loop takes next, after line.rstrip('\n').
NextLineOfFile == rstrip(f[idx + 1])

\* if minutes: an int other than 0 is true, None and 0 are false.
truthy(m) == m.kind = "int" /\ m.val # 0

InLoop == pc = "stats_from_file" /\ idx < Len(f)

\* if line: is false, the line is skipped.
SkipEmptyLine ==
    /\ InLoop
    /\ NextLineOfFile = <<>>
    /\ idx' = idx + 1
    /\ UNCHANGED <<pc, f, total_days, total_duration, out, ret,
                   shape, line, minutes, s, duration, text>>

\* minutes_from_line raises: nothing catches it, timereport ends with it.
LineRaises ==
    /\ InLoop
    /\ NextLineOfFile # <<>>
    /\ minutes_from_line(NextLineOfFile).kind = "ValueError"
    /\ idx' = idx + 1
    /\ pc' = "raised"
    /\ ret' = [kind |-> "ValueError", val |-> <<>>]
    /\ UNCHANGED <<f, total_days, total_duration, out,
                   shape, line, minutes, s, duration, text>>

\* if minutes: is true.
CountLine ==
    /\ InLoop
    /\ NextLineOfFile # <<>>
    /\ LET m == minutes_from_line(NextLineOfFile) IN
       /\ truthy(m)
       /\ total_days' = total_days + 1
       /\ total_duration' = total_duration + m.val
       /\ out' = Append(out, NextLineOfFile \o <<" ", "(">> \o IntStr(m.val) \o <<" ", "m", "i", "n", ")">>)
    /\ idx' = idx + 1
    /\ UNCHANGED <<pc, f, ret, shape, line, minutes, s, duration, text>>

\* A faulty variant of FlagLine: the flagged line is counted as a day.
FlagLine_CountsDay ==
    /\ InLoop
    /\ NextLineOfFile # <<>>
    /\ LET m == minutes_from_line(NextLineOfFile) IN
       /\ m.kind # "ValueError"
       /\ ~truthy(m)
    /\ out' = Append(out, <<"*", " ">> \o NextLineOfFile)
    /\ idx' = idx + 1
    /\ total_days' = total_days + 1
    /\ UNCHANGED <<pc, f, total_duration, ret,
                   shape, line, minutes, s, duration, text>>

\* if minutes: is false.
FlagLine ==
    /\ InLoop
    /\ NextLineOfFile # <<>>
    /\ LET m == minutes_from_line(NextLineOfFile) IN
       /\ m.kind # "ValueError"
       /\ ~truthy(m)
    /\ out' = Append(out, <<"*", " ">> \o NextLineOfFile)
    /\ idx' = idx + 1
    /\ UNCHANGED <<pc, f, total_days, total_duration, ret,
                   shape, line, minutes, s, duration, text>>

\* return (total_days, total_duration)
StatsReturn ==
    /\ pc = "stats_from_file"
    /\ idx = Len(f)
    /\ pc' = "timereport"
    /\ UNCHANGED <<f, idx, total_days, total_duration, out, ret,
                   shape, line, minutes, s, duration, text>>

\* A faulty variant of duration_per_day: the division truncates toward zero.
duration_per_day_trunc(dur, days) ==
    IF dur < 0 THEN 0 - ((0 - dur) \div days) ELSE dur \div days

\* duration // days
duration_per_day(dur, days) == dur \div days

\* The f-string timereport returns.
report(days, dur, per_day) ==
    <<"T", "o", "t", "a", "l", " ">> \o IntStr(days) \o <<" ", "d", "a", "y", "s", ",", " ">> \o IntStr(dur) \o <<" ", "m", "i", "n", ",", " ">>
    \o IntStr(per_day) \o <<" ", "m", "i", "n", "s", "/", "d", "a", "y", ",", " ">> \o format_duration(dur)

Timereport ==
    /\ pc = "timereport"
    /\ IF total_days = 0
       THEN /\ pc' = "raised"
            /\ ret' = [kind |-> "ZeroDivisionError", val |-> <<>>]
       ELSE /\ pc' = "done"
            /\ ret' = [kind |-> "str",
                       val |-> report(total_days, total_duration,
                                      duration_per_day(total_duration, total_days))]
    /\ UNCHANGED <<f, idx, total_days, total_duration, out,
                   shape, line, minutes, s, duration, text>>

Next ==
    \/ SkipEmptyLine
    \/ LineRaises
    \/ CountLine
    \/ FlagLine
    \/ StatsReturn
    \/ Timereport

Spec == Init /\ [][Next]_vars

(***************************************************************************)
(* What the claims speak of.                                               *)
(***************************************************************************)
\* The parse outcome of a line of the input.
Outcome(l) == minutes_from_line(rstrip(l))

IsParsed(l) == rstrip(l) # <<>> /\ Outcome(l).kind = "int"

IsUnparsed(l) == rstrip(l) # <<>> /\ Outcome(l).kind = "None"

RECURSIVE NumParsed(_)
NumParsed(ls) ==
    IF ls = <<>> THEN 0
    ELSE (IF IsParsed(ls[1]) THEN 1 ELSE 0) + NumParsed(Tail(ls))

RECURSIVE SumParsed(_)
SumParsed(ls) ==
    IF ls = <<>> THEN 0
    ELSE (IF IsParsed(ls[1]) THEN Outcome(ls[1]).val ELSE 0) + SumParsed(Tail(ls))

RECURSIVE ExpectedEchoes(_)
ExpectedEchoes(ls) ==
    IF ls = <<>> THEN <<>>
    ELSE (IF rstrip(ls[1]) = <<>> THEN <<>>
          ELSE IF IsParsed(ls[1])
               THEN <<rstrip(ls[1]) \o <<" ", "(">> \o IntStr(Outcome(ls[1]).val) \o <<" ", "m", "i", "n", ")">>>>
               ELSE <<(<<"*", " ">> \o rstrip(ls[1]))>>)
         \o ExpectedEchoes(Tail(ls))

Consumed == SubSeq(f, 1, idx)

\* The line starts with a date of the yyyy-mm-dd shape, a space and an
\* interval: the prefix the grammar asks for, whatever follows it.
MatchesGrammar(sh) == sh.date = <<"2", "0", "1", "9", "-", "0", "4", "-", "0", "9">>

\* Moreover the intervals are separated by commas and no comma follows the
\* last one: the interval list splits into start-stop pairs.
WellFormed(sh) ==
    /\ sh.date = <<"2", "0", "1", "9", "-", "0", "4", "-", "0", "9">>
    /\ sh.tail = <<>>
    /\ \A k \in 1..Len(sh.seps) : sh.seps[k] # <<>>

TimeValue(h, m) == DecimalValue(h) * 60 + DecimalValue(m)

RECURSIVE ExpectedWorked(_)
ExpectedWorked(ivs) ==
    IF ivs = <<>> THEN 0
    ELSE TimeValue(ivs[1].h2, ivs[1].m2) - TimeValue(ivs[1].h1, ivs[1].m1)
         + ExpectedWorked(Tail(ivs))

HasAnnotation(sh) == sh.annot.clauses # <<>> /\ sh.annot.closed

LeadingPause(sh) == IF HasAnnotation(sh) THEN DecimalValue(sh.annot.clauses[1]) ELSE 0

RECURSIVE SumClauses(_)
SumClauses(cs) == IF cs = <<>> THEN 0 ELSE DecimalValue(cs[1]) + SumClauses(Tail(cs))

SignedValue(str) ==
    IF str # <<>> /\ str[1] = "-" THEN 0 - DecimalValue(Tail(str)) ELSE DecimalValue(str)

IsNumeral(str) ==
    \/ str # <<>> /\ AllDigits(str)
    \/ Len(str) > 1 /\ str[1] = "-" /\ AllDigits(Tail(str))

(***************************************************************************)
(* The claims.                                                             *)
(***************************************************************************)

\* C1: no line makes minutes_from_line raise: a line that matches the pattern
\* but whose interval list does not split into start-stop pairs fails alone,
\* and stats_from_file processes every line of the input.
C1_LineFailureIsLocal ==
    /\ ret.kind # "ValueError"
    /\ (pc # "stats_from_file" => idx = Len(f))

\* C2: when no line is counted as a day, timereport returns a report of zero
\* days and zero minutes per day; it never faults with a division by zero.
C2_ZeroDaysReport ==
    (pc \in {"done", "raised"} /\ ret.kind # "ValueError" /\ total_days = 0)
        => (pc = "done" /\ ret = [kind |-> "str", val |-> <<"T", "o", "t", "a", "l", " ", "0", " ", "d", "a", "y", "s", ",", " ", "0", " ", "m", "i", "n", ",", " ", "0", " ", "m", "i", "n", "s", "/", "d", "a", "y", ",", " ", "0", ":", "0", "0">>])

\* C3: after any lines, total_days is the number of non-empty lines whose
\* outcome is Parsed, whatever the sign of their net minutes, zero included.
C3_DaysCountParsedLines ==
    pc # "raised" => total_days = NumParsed(Consumed)

\* C4: for every line that matches the grammar, minutes_from_line returns an
\* int: the sum of stop - start over its intervals minus the leading integer
\* of the annotation (0 without annotation), unclamped when zero or negative.
C4_NetMinutes ==
    (pc = "minutes_from_line returned" /\ MatchesGrammar(shape))
        => /\ minutes.kind = "int"
           /\ WellFormed(shape)
                 => minutes.val = ExpectedWorked(shape.ivs) - LeadingPause(shape)

\* The arithmetic of C4 on the lines whose interval list splits into
\* start-stop pairs: there the returned value is the one C4 states.
NetMinutesOfPairedLines ==
    (pc = "minutes_from_line returned" /\ WellFormed(shape))
        => minutes = IntResult(ExpectedWorked(shape.ivs) - LeadingPause(shape))

\* C5: when the annotation holds more than one "<N> min" clause,
\* minutes_from_line subtracts the N of every clause.
C5_AllClausesSubtracted ==
    (/\ pc = "minutes_from_line returned"
     /\ WellFormed(shape)
     /\ HasAnnotation(shape)
     /\ Len(shape.annot.clauses) > 1)
        => minutes = IntResult(ExpectedWorked(shape.ivs) - SumClauses(shape.annot.clauses))

\* C6: stats_from_file prints one echo per non-empty line and none for an
\* empty one, in input order: "<line> (<n> min)" exactly for a Parsed line,
\* "* <line>" exactly for an Unparsed one.
C6_OneEchoPerLine ==
    pc # "raised" => out = ExpectedEchoes(Consumed)

\* C7: processing an empty line or a line whose outcome is Unparsed leaves
\* total_days and total_duration unchanged, wherever the line occurs.
C7_SkippedLinesLeaveTotals ==
    [][(/\ pc = "stats_from_file"
        /\ idx < Len(f)
        /\ idx' = idx + 1
        /\ (rstrip(f[idx + 1]) = <<>> \/ IsUnparsed(f[idx + 1])))
       => (total_days' = total_days /\ total_duration' = total_duration)]_vars

\* C7 witness: an Unparsed line has been processed after a counted line.
C7_Witness ==
    /\ idx >= 2
    /\ total_days >= 1
    /\ total_duration # 0
    /\ IsUnparsed(f[idx])
    /\ out # <<>> /\ out[Len(out)] = <<"*", " ">> \o rstrip(f[idx])

\* C8: total_duration returned by stats_from_file is the sum of the net
\* minutes of the Parsed lines, negative ones included, and with
\* total_days > 0 the report states total_days, that total, the floor
\* quotient total // total_days and format_duration(total).
C8_TotalsAndReport ==
    /\ pc \in {"timereport", "done"} => total_duration = SumParsed(f)
    /\ pc = "done" =>
          /\ total_days > 0
          /\ ret.kind = "str"
          /\ ret.val = <<"T", "o", "t", "a", "l", " ">> \o IntStr(total_days) \o <<" ", "d", "a", "y", "s", ",", " ">> \o IntStr(SumParsed(f)) \o <<" ", "m", "i", "n", ",", " ">>
                       \o IntStr(SumParsed(f) \div total_days) \o <<" ", "m", "i", "n", "s", "/", "d", "a", "y", ",", " ">>
                       \o format_duration(SumParsed(f))

\* C8 witness: a report over two counted days with a negative total that
\* the day count does not divide.
C8_Witness ==
    /\ pc = "done"
    /\ total_days = 2
    /\ total_duration < 0
    /\ total_duration % 2 = 1

\* C9: for a time token h:mm with the hour 0..23 as written and the minute
\* 00..59 in two digits, format_duration(to_minutes(token)) is the token.
C9_RoundTrip ==
    (pc = "format_duration returned" /\ s \in CanonicalTokens) => text = s

\* C9 witness: the round trip of 0:05 has run.
C9_Witness ==
    /\ pc = "format_duration returned"
    /\ s = <<"0", ":", "0", "5">>
    /\ duration = 5

\* C10: format_duration renders h:mm with mm two digits in 00..59 and
\* h * 60 + mm = duration, h being the floor quotient, also below zero.
C10_FloorRendering ==
    pc = "format_duration returned" =>
        LET parts == split(text, ":") IN
        /\ Len(parts) = 2
        /\ IsNumeral(parts[1])
        /\ Len(parts[2]) = 2
        /\ AllDigits(parts[2])
        /\ DecimalValue(parts[2]) \in 0..59
        /\ SignedValue(parts[1]) * 60 + DecimalValue(parts[2]) = duration

\* C10 witness: a negative duration that is no multiple of 60 was rendered.
C10_Witness ==
    /\ pc = "format_duration returned"
    /\ s = <<>>
    /\ duration < 0
    /\ duration % 60 # 0
    /\ text[1] = "-"

====
